---- MODULE Spec2Model ----
(***************************************************************************)
(* BlueALSA D-Bus front end (src/bluealsa.c): the manager object and its   *)
(* PCM enumeration method, the registration of a transport as a D-Bus      *)
(* object (PCMAdded) and its removal (PCMRemoved), over the adapter /      *)
(* device / transport tree and the GDBus object table.                     *)
(***************************************************************************)
EXTENDS Integers, Sequences, FiniteSets, TLC

\* ---------------------------------------------------------------- bounds
\* Number of struct ba_transport objects that are ever allocated.
MaxTransports == 2
\* Highest number of PCMAdded (and of PCMRemoved) signals emitted.
MaxSignals == 2
\* Highest descriptor open() returns to bluealsa_config_init.
MaxFd == 12
\* Highest group id getgrnam() reports to bluealsa_config_init.
MaxGid == 8

\* ------------------------------------------------------------- constants
HCI_MAX_DEV == 16

BA_TRANSPORT_PROFILE_A2DP_SINK == 2
BA_TRANSPORT_PROFILE_HFP_AG == 8
BA_TRANSPORT_PROFILE_RFCOMM == 64

\* Adapter indices that are ever inserted (below HCI_MAX_DEV).
AdapterIds == {0, 1}
Addrs == {"AA:BB:CC:DD:EE:FF"}
TIds == 1..MaxTransports

\* The sessions (adapter index, device address, profile) for which a
\* transport is created: an A2DP sink and an HFP RFCOMM link of one device
\* on hci0, and an A2DP sink on hci1.
Sessions ==
  { <<0, "AA:BB:CC:DD:EE:FF", BA_TRANSPORT_PROFILE_A2DP_SINK>>,
    <<0, "AA:BB:CC:DD:EE:FF",
      BA_TRANSPORT_PROFILE_HFP_AG + BA_TRANSPORT_PROFILE_RFCOMM>>,
    <<1, "AA:BB:CC:DD:EE:FF", BA_TRANSPORT_PROFILE_A2DP_SINK>> }

BLUEALSA_MANAGER_PATH == <<"org", "bluealsa">>
BLUEALSA_IFACE_MANAGER == "org.bluealsa.Manager1"
BLUEALSA_IFACE_PCM == "org.bluealsa.PCM1"

VARIABLES
  adapters,     \* indices i for which ba_adapter_lookup(i) is not NULL
  devices,      \* <<a, d>>: device d is in the hash table a->devices
  transports,   \* allocated struct ba_transport objects, by identity
  objects,      \* GDBus object table of config.dbus: registrations
  next_id,      \* GDBus registration id counter
  added,        \* number of PCMAdded signals emitted on the bus
  removed,      \* number of PCMRemoved signals emitted on the bus
  binds,        \* number of transport registrations that succeeded
  call,         \* the last call of a function of bluealsa.c and what it did
  config,       \* struct ba_config config: the fields bluealsa.c writes
  seen,         \* the paths of the last reply, while the tree is unchanged
  last_sig,     \* per object path, the last signal emitted for it
  iter,         \* the dispatch thread inside bluealsa_manager_method_call
  thr           \* threads inside bluealsa_dbus_unregister_transport

vars == <<adapters, devices, transports, objects, next_id,
          added, removed, binds, call, config, seen, last_sig, iter, thr>>

\* ------------------------------------------------------ pure helpers
\* x & y on non-negative integers.
RECURSIVE BitAnd(_, _)
BitAnd(x, y) ==
  IF x = 0 \/ y = 0 THEN 0
  ELSE (IF x % 2 = 1 /\ y % 2 = 1 THEN 1 ELSE 0) + 2 * BitAnd(x \div 2, y \div 2)

\* The elements of a finite set, in the order the iterator yields them.
RECURSIVE IterOrder(_)
IterOrder(S) ==
  IF S = {} THEN <<>>
  ELSE LET e == CHOOSE e \in S : TRUE IN <<e>> \o IterOrder(S \ {e})

\* The last path component of a transport, from its profile.
ProfileTag(profile) ==
  CASE profile = BA_TRANSPORT_PROFILE_A2DP_SINK -> "a2dpsink"
    [] profile = BA_TRANSPORT_PROFILE_HFP_AG -> "hfpag"
    [] profile = BA_TRANSPORT_PROFILE_HFP_AG + BA_TRANSPORT_PROFILE_RFCOMM -> "hfpag_rfcomm"
    [] OTHER -> "none"

\* /org/bluealsa/hci<a>/dev_<d>/<tag>
TransportPath(a, d, profile) ==
  BLUEALSA_MANAGER_PATH \o <<a, d, ProfileTag(profile)>>

NoCall == [name |-> "none", t |-> 0, ret |-> 0, events |-> <<>>, reply |-> <<>>]

\* The object paths a transport can have.
PCMPaths == {TransportPath(s[1], s[2], s[3]) : s \in Sessions}

\* The threads that call into bluealsa.c besides the dispatch thread.
Threads == {1, 2}

\* No history kept, no thread inside a function.
NoSignals == [p \in PCMPaths |-> "none"]
IterIdle == [pc |-> "idle", i |-> 0, cur |-> 0, visited |-> {}, reply |-> <<>>]
ThrIdle == [th \in Threads |-> [pc |-> "idle", t |-> 0, id |-> 0]]

\* A step of a function that runs alone and to completion.
AtomicStep == UNCHANGED <<config, seen, last_sig, iter, thr>>

\* ------------------------------------------------ struct ba_config
\* What open("/dev/null", O_WRONLY | O_NONBLOCK) returns: -1 or a descriptor
\* above the standard three.
OpenResults == {-1} \cup (3..MaxFd)

\* What getgrnam("audio") returns: NULL (the empty sequence) or a struct
\* group, of which only gr_gid is read.
GroupResults == {<<>>} \cup {<<g>> : g \in 0..MaxGid}

\* The initializer of the global config: the descriptor and the audio group
\* are -1; the fields set by bluealsa_config_init are not set yet.
ConfigStatic ==
  [null_fd |-> -1, gid_audio |-> -1, hci_filter |-> "NULL",
   main_thread |-> "none", codecs |-> "NULL"]

\* The assignments of bluealsa_config_init to cfg, when open() returns fd
\* and getgrnam() returns grp.
ConfigAssign(cfg, fd, grp) ==
  [cfg EXCEPT
     !.hci_filter = "g_array",
     !.main_thread = "pthread_self",
     !.null_fd = fd,
     !.gid_audio = IF grp # <<>> THEN grp[1] ELSE @,
     !.codecs = "bluez_a2dp_codecs"]

\* bluealsa_config_init that fails when the audio group is missing.
bluealsa_config_init_GroupRequired(fd, grp) ==
  /\ config.main_thread = "none"
  /\ config' = ConfigAssign(config, fd, grp)
  /\ call' = [NoCall EXCEPT
       !.name = "bluealsa_config_init",
       !.ret = IF grp = <<>> THEN -1 ELSE 0,
       !.events = << [ev |-> "open", fd |-> fd],
                     [ev |-> "getgrnam", grp |-> grp] >>]
  /\ UNCHANGED <<adapters, devices, transports, objects, next_id,
                 added, removed, binds>>

\* bluealsa_config_init(): called once, first thing at start-up; it returns
\* 0 on every path.
bluealsa_config_init(fd, grp) ==
  /\ config.main_thread = "none"
  /\ config' = ConfigAssign(config, fd, grp)
  /\ call' = [NoCall EXCEPT
       !.name = "bluealsa_config_init",
       !.ret = 0,
       !.events = << [ev |-> "open", fd |-> fd],
                     [ev |-> "getgrnam", grp |-> grp] >>]
  /\ UNCHANGED <<adapters, devices, transports, objects, next_id,
                 added, removed, binds>>

\* bluealsa_dbus_register_manager(): at start-up the daemon registers the
\* manager object at /org/bluealsa; it is the first registration of the
\* connection.
bluealsa_dbus_register_manager ==
  [id |-> 1, path |-> BLUEALSA_MANAGER_PATH, iface |-> BLUEALSA_IFACE_MANAGER]

\* ---------------------------------------------------------------- Init
\* The daemon after start-up: the configuration is initialized (here on a
\* host without audio group), the manager object is registered, no adapter
\* is known yet.
Init ==
  /\ config = ConfigAssign(ConfigStatic, 3, <<>>)
  /\ adapters = {}
  /\ devices = {}
  /\ transports = <<>>
  /\ objects = {bluealsa_dbus_register_manager}
  /\ next_id = bluealsa_dbus_register_manager.id + 1
  /\ added = 0
  /\ removed = 0
  /\ binds = 0
  /\ call = NoCall
  /\ seen = <<>>
  /\ last_sig = NoSignals
  /\ iter = IterIdle
  /\ thr = ThrIdle

\* ------------------------------------------------ GDBus object table
\* g_dbus_connection_register_object(): the new registration id, or 0 when
\* the connection refuses (ok = FALSE) or an object is already exported
\* for this interface at this path.
g_dbus_connection_register_object(path, iface, ok) ==
  IF ok /\ ~(\E o \in objects : o.path = path /\ o.iface = iface)
  THEN next_id
  ELSE 0

\* The object table after a registration that returned id.
ObjectsAfterRegister(path, iface, id) ==
  IF id # 0
  THEN objects \cup {[id |-> id, path |-> path, iface |-> iface]}
  ELSE objects

\* g_dbus_connection_unregister_object(): TRUE iff id names a registration.
g_dbus_connection_unregister_object(id) ==
  \E o \in objects : o.id = id

\* The object table after unregistering id.
ObjectsAfterUnregister(id) ==
  {o \in objects : o.id # id}

\* ---------------------------------------------------------- the tree
\* ba_adapter_lookup(i) != NULL
ba_adapter_lookup(i) == i \in adapters

\* The keys of the hash table a->devices.
DevicesOf(a) == {d \in Addrs : <<a, d>> \in devices}

\* The values of the hash table d->transports.
TransportsOf(a, d) ==
  {t \in DOMAIN transports :
     /\ transports[t].linked
     /\ transports[t].a = a
     /\ transports[t].d = d}

\* An adapter becomes available.
ba_adapter_new(a) ==
  /\ a \notin adapters
  /\ adapters' = adapters \cup {a}
  /\ call' = NoCall
  /\ UNCHANGED <<devices, transports, objects, next_id,
                 added, removed, binds>>

\* An adapter without devices goes away.
ba_adapter_free(a) ==
  /\ a \in adapters
  /\ DevicesOf(a) = {}
  /\ adapters' = adapters \ {a}
  /\ call' = NoCall
  /\ UNCHANGED <<devices, transports, objects, next_id,
                 added, removed, binds>>

\* A device is inserted into its adapter's table.
ba_device_new(a, d) ==
  /\ a \in adapters
  /\ <<a, d>> \notin devices
  /\ devices' = devices \cup {<<a, d>>}
  /\ call' = NoCall
  /\ UNCHANGED <<adapters, transports, objects, next_id,
                 added, removed, binds>>

\* A device without transports is removed from its adapter's table.
ba_device_free(a, d) ==
  /\ <<a, d>> \in devices
  /\ TransportsOf(a, d) = {}
  /\ devices' = devices \ {<<a, d>>}
  /\ call' = NoCall
  /\ UNCHANGED <<adapters, transports, objects, next_id,
                 added, removed, binds>>

\* A transport is allocated and inserted into its device's table; the key
\* (the profile) is free in that table.
ba_transport_new(a, d, profile) ==
  /\ <<a, d>> \in devices
  /\ Len(transports) < MaxTransports
  /\ \A t \in TransportsOf(a, d) : transports[t].profile # profile
  /\ transports' = Append(transports,
       [a |-> a, d |-> d, profile |-> profile,
        ba_dbus_path |-> TransportPath(a, d, profile),
        ba_dbus_id |-> 0, linked |-> TRUE])
  /\ call' = NoCall
  /\ UNCHANGED <<adapters, devices, objects, next_id,
                 added, removed, binds>>

\* The transports of the tree: in the table of a device that is in the
\* table of an adapter.
InRegistry(t) ==
  /\ transports[t].linked
  /\ transports[t].a \in adapters
  /\ <<transports[t].a, transports[t].d>> \in devices

\* A transport is removed from its device's table; the object stays
\* allocated for as long as somebody holds a reference to it.
ba_transport_remove(t) ==
  /\ t \in DOMAIN transports
  /\ transports[t].linked
  /\ transports' = [transports EXCEPT ![t].linked = FALSE]
  /\ call' = NoCall
  /\ UNCHANGED <<adapters, devices, objects, next_id,
                 added, removed, binds>>

\* ------------------------------------------------------- bluealsa.c
\* IsRFCOMM with == for &: only the bare RFCOMM profile is skipped.
IsRFCOMM_Equal(t) ==
  transports[t].profile = BA_TRANSPORT_PROFILE_RFCOMM

\* The manager method skips a transport: t->type.profile & RFCOMM.
IsRFCOMM(t) ==
  BitAnd(transports[t].profile, BA_TRANSPORT_PROFILE_RFCOMM) # 0

\* TransportLoop that also skips a transport whose ba_dbus_id is zero.
RECURSIVE TransportLoop_SkipUnregistered(_)
TransportLoop_SkipUnregistered(ts) ==
  IF ts = <<>> THEN <<>>
  ELSE (IF IsRFCOMM(Head(ts)) \/ transports[Head(ts)].ba_dbus_id = 0
        THEN <<>>
        ELSE << <<transports[Head(ts)].ba_dbus_path, <<>> >> >>)
       \o TransportLoop_SkipUnregistered(Tail(ts))

\* The inner loop over d->transports: one {oa{sv}} entry, the D-Bus path
\* with an empty dictionary, for every transport that is not skipped.
RECURSIVE TransportLoop(_)
TransportLoop(ts) ==
  IF ts = <<>> THEN <<>>
  ELSE (IF IsRFCOMM(Head(ts))
        THEN <<>>
        ELSE << <<transports[Head(ts)].ba_dbus_path, <<>> >> >>)
       \o TransportLoop(Tail(ts))

\* The loop over a->devices.
RECURSIVE DeviceLoop(_, _)
DeviceLoop(a, ds) ==
  IF ds = <<>> THEN <<>>
  ELSE TransportLoop(IterOrder(TransportsOf(a, Head(ds))))
       \o DeviceLoop(a, Tail(ds))

\* AdapterLoop that keeps the adapter of an earlier index when the lookup
\* of index i returns NULL, and walks that adapter again.
RECURSIVE AdapterLoop_StaleAdapter(_)
AdapterLoop_StaleAdapter(i) ==
  IF i >= HCI_MAX_DEV THEN <<>>
  ELSE LET found == {j \in 0..i : ba_adapter_lookup(j)}
       IN (IF found = {}
           THEN <<>>
           ELSE LET a == CHOOSE j \in found : \A k \in found : k <= j
                IN DeviceLoop(a, IterOrder(DevicesOf(a))))
          \o AdapterLoop_StaleAdapter(i + 1)

\* AdapterLoop with break for continue: it ends at the first index without
\* an adapter.
RECURSIVE AdapterLoop_Break(_)
AdapterLoop_Break(i) ==
  IF i >= HCI_MAX_DEV THEN <<>>
  ELSE IF ~ba_adapter_lookup(i)
       THEN <<>>
       ELSE DeviceLoop(i, IterOrder(DevicesOf(i))) \o AdapterLoop_Break(i + 1)

\* The loop for (i = 0; i < HCI_MAX_DEV; i++) from index i on.
RECURSIVE AdapterLoop(_)
AdapterLoop(i) ==
  IF i >= HCI_MAX_DEV THEN <<>>
  ELSE (IF ~ba_adapter_lookup(i)
        THEN <<>>
        ELSE DeviceLoop(i, IterOrder(DevicesOf(i))))
       \o AdapterLoop(i + 1)

\* bluealsa_manager_method_call that takes every transport it lists out of
\* its device's table (g_hash_table_iter_steal after the read).
bluealsa_manager_method_call_Steal ==
  /\ \E o \in objects : /\ o.path = BLUEALSA_MANAGER_PATH
                         /\ o.iface = BLUEALSA_IFACE_MANAGER
  /\ call' = [NoCall EXCEPT !.name = "bluealsa_manager_method_call",
                            !.reply = AdapterLoop(0)]
  /\ transports' = [t \in DOMAIN transports |->
       IF /\ transports[t].a \in adapters
          /\ <<transports[t].a, transports[t].d>> \in devices
       THEN [transports[t] EXCEPT !.linked = FALSE]
       ELSE transports[t]]
  /\ UNCHANGED <<adapters, devices, objects, next_id,
                 added, removed, binds>>

\* A peer calls the manager's method; GDBus dispatches it only while the
\* manager object is registered.  The reply is the array built by the loops.
bluealsa_manager_method_call ==
  /\ \E o \in objects : /\ o.path = BLUEALSA_MANAGER_PATH
                         /\ o.iface = BLUEALSA_IFACE_MANAGER
  /\ call' = [NoCall EXCEPT !.name = "bluealsa_manager_method_call",
                            !.reply = AdapterLoop(0)]
  /\ UNCHANGED <<adapters, devices, transports, objects, next_id,
                 added, removed, binds>>

\* The property names a peer asks for: the empty name, members of the
\* manager interface, a name a PCM could have.
PropertyNames == {"", "GetPCMs", "PCMAdded", "Volume"}

\* bluealsa_transport_get_property that knows the property "Volume".
bluealsa_transport_get_property_Volume(property) ==
  /\ \E o \in objects : o.iface = BLUEALSA_IFACE_PCM
  /\ call' = IF property = "Volume"
             THEN [NoCall EXCEPT
                    !.name = "bluealsa_transport_get_property",
                    !.ret = 127]
             ELSE [NoCall EXCEPT
                    !.name = "bluealsa_transport_get_property",
                    !.events = << [ev |-> "g_error_new",
                                   domain |-> "G_DBUS_ERROR",
                                   code |-> "G_DBUS_ERROR_INVALID_ARGS",
                                   message |-> << "No such property '",
                                                  property, "'" >>] >>]
  /\ UNCHANGED <<adapters, devices, transports, objects, next_id,
                 added, removed, binds>>

\* bluealsa_transport_get_property(): GDBus calls it for a property read
\* on an exported PCM object; it sets *error for every name and returns
\* NULL (ret 0), and touches nothing else.
bluealsa_transport_get_property(property) ==
  /\ \E o \in objects : o.iface = BLUEALSA_IFACE_PCM
  /\ call' = [NoCall EXCEPT
       !.name = "bluealsa_transport_get_property",
       !.ret = 0,
       !.events = << [ev |-> "g_error_new",
                      domain |-> "G_DBUS_ERROR",
                      code |-> "G_DBUS_ERROR_INVALID_ARGS",
                      message |-> << "No such property '",
                                     property, "'" >>] >>]
  /\ UNCHANGED <<adapters, devices, transports, objects, next_id,
                 added, removed, binds>>

\* bluealsa_dbus_register_transport that takes over the registration of an
\* object already exported at the transport's path.
bluealsa_dbus_register_transport_Alias(t, ok) ==
  /\ t \in DOMAIN transports
  /\ added < MaxSignals
  /\ LET path == transports[t].ba_dbus_path
         old == {o \in objects : o.path = path /\ o.iface = BLUEALSA_IFACE_PCM}
         new == g_dbus_connection_register_object(path, BLUEALSA_IFACE_PCM, ok)
         id == IF old # {} THEN (CHOOSE o \in old : TRUE).id ELSE new
     IN /\ objects' = ObjectsAfterRegister(path, BLUEALSA_IFACE_PCM, id)
        /\ next_id' = IF new # 0 THEN next_id + 1 ELSE next_id
        /\ binds' = IF new # 0 THEN binds + 1 ELSE binds
        /\ transports' = [transports EXCEPT ![t].ba_dbus_id = id]
        /\ added' = added + 1
        /\ call' = [NoCall EXCEPT
             !.name = "bluealsa_dbus_register_transport",
             !.t = t,
             !.ret = id,
             !.events = << [ev |-> "register_object",
                            path |-> path, id |-> id],
                           [ev |-> "emit_signal",
                            signal |-> "PCMAdded", path |-> path] >>]
  /\ UNCHANGED <<adapters, devices, removed>>

\* bluealsa_dbus_register_transport(): the result of the registration is
\* stored in ba_dbus_id, PCMAdded is emitted, ba_dbus_id is returned.
bluealsa_dbus_register_transport(t, ok) ==
  /\ t \in DOMAIN transports
  /\ added < MaxSignals
  /\ LET path == transports[t].ba_dbus_path
         id == g_dbus_connection_register_object(path, BLUEALSA_IFACE_PCM, ok)
     IN /\ objects' = ObjectsAfterRegister(path, BLUEALSA_IFACE_PCM, id)
        /\ next_id' = IF id # 0 THEN next_id + 1 ELSE next_id
        /\ binds' = IF id # 0 THEN binds + 1 ELSE binds
        /\ transports' = [transports EXCEPT ![t].ba_dbus_id = id]
        /\ added' = added + 1
        /\ call' = [NoCall EXCEPT
             !.name = "bluealsa_dbus_register_transport",
             !.t = t,
             !.ret = id,
             !.events = << [ev |-> "register_object",
                            path |-> path, id |-> id],
                           [ev |-> "emit_signal",
                            signal |-> "PCMAdded", path |-> path] >>]
  /\ UNCHANGED <<adapters, devices, removed>>

\* bluealsa_dbus_unregister_transport(): with a non-zero ba_dbus_id the
\* registration is dropped and PCMRemoved is emitted; ba_dbus_id is not
\* written.
bluealsa_dbus_unregister_transport(t) ==
  /\ t \in DOMAIN transports
  /\ LET path == transports[t].ba_dbus_path
         id == transports[t].ba_dbus_id
     IN IF id # 0
        THEN /\ removed < MaxSignals
             /\ objects' = ObjectsAfterUnregister(id)
             /\ removed' = removed + 1
             /\ call' = [NoCall EXCEPT
                  !.name = "bluealsa_dbus_unregister_transport",
                  !.t = t,
                  !.events = << [ev |-> "unregister_object", id |-> id,
                                 done |-> g_dbus_connection_unregister_object(id)],
                                [ev |-> "emit_signal",
                                 signal |-> "PCMRemoved", path |-> path] >>]
        ELSE /\ call' = [NoCall EXCEPT
                  !.name = "bluealsa_dbus_unregister_transport",
                  !.t = t]
             /\ UNCHANGED <<objects, removed>>
  /\ UNCHANGED <<adapters, devices, transports, next_id,
                 added, binds>>

\* --------------------------------------------------- specification
\* The daemon after start-up: calls of the functions of bluealsa.c and
\* changes of the tree, one at a time; adapters and devices stay.
Next ==
  \/ \E a \in AdapterIds : ba_adapter_new(a) /\ AtomicStep
  \/ \E a \in AdapterIds, d \in Addrs :
       ba_device_new(a, d) /\ AtomicStep
  \/ \E s \in Sessions :
       ba_transport_new(s[1], s[2], s[3]) /\ AtomicStep
  \/ \E t \in TIds : ba_transport_remove(t) /\ AtomicStep
  \/ bluealsa_manager_method_call /\ AtomicStep
  \/ \E t \in TIds, ok \in BOOLEAN :
       bluealsa_dbus_register_transport(t, ok) /\ AtomicStep
  \/ \E t \in TIds :
       bluealsa_dbus_unregister_transport(t) /\ AtomicStep

Spec == Init /\ [][Next]_vars

\* The process before main() has run anything: the static initializer of
\* config, nothing registered.
InitBoot ==
  /\ config = ConfigStatic
  /\ seen = <<>>
  /\ last_sig = NoSignals
  /\ iter = IterIdle
  /\ thr = ThrIdle
  /\ adapters = {}
  /\ devices = {}
  /\ transports = <<>>
  /\ objects = {}
  /\ next_id = 1
  /\ added = 0
  /\ removed = 0
  /\ binds = 0
  /\ call = NoCall

\* Start-up: bluealsa_config_init with every result of open() and getgrnam().
NextBoot ==
  \E fd \in OpenResults, grp \in GroupResults :
    bluealsa_config_init(fd, grp) /\ UNCHANGED <<seen, last_sig, iter, thr>>

SpecBoot == InitBoot /\ [][NextBoot]_vars

\* ------------------------------------------- the bus as peers see it
\* The paths of the reply of call c.
ReplyPathsOf(c) == {c.reply[i][1] : i \in DOMAIN c.reply}

\* The signal the call c emitted for path p, "none" if it emitted none.
SignalOn(c, p) ==
  LET es == {i \in DOMAIN c.events :
               c.events[i].ev = "emit_signal" /\ c.events[i].path = p}
  IN IF es = {} THEN "none"
     ELSE c.events[CHOOSE i \in es : \A j \in es : j <= i].signal

\* What a peer that calls the manager method remembers after the step:
\* the paths of the last reply (with the mark that the reply before it,
\* another call in between, was taken on the same tree) until the tree
\* changes.
RecordReply(tree_changed) ==
  /\ seen' = IF tree_changed THEN <<>>
             ELSE IF call'.name = "bluealsa_manager_method_call"
             THEN << ReplyPathsOf(call'),
                     seen # <<>> /\
                       call.name # "bluealsa_manager_method_call" >>
             ELSE seen
  /\ UNCHANGED <<config, last_sig, iter, thr>>

\* The daemon with a peer that calls the manager method again and again;
\* adapters and devices stay.
NextQuery ==
  \/ \E a \in AdapterIds : ba_adapter_new(a) /\ RecordReply(TRUE)
  \/ \E a \in AdapterIds, d \in Addrs :
       ba_device_new(a, d) /\ RecordReply(TRUE)
  \/ \E s \in Sessions :
       ba_transport_new(s[1], s[2], s[3]) /\ RecordReply(TRUE)
  \/ \E t \in TIds : ba_transport_remove(t) /\ RecordReply(TRUE)
  \/ bluealsa_manager_method_call /\ RecordReply(FALSE)
  \/ \E t \in TIds, ok \in BOOLEAN :
       bluealsa_dbus_register_transport(t, ok) /\ RecordReply(FALSE)
  \/ \E t \in TIds :
       bluealsa_dbus_unregister_transport(t) /\ RecordReply(FALSE)

SpecQuery == Init /\ [][NextQuery]_vars

\* What a peer that listens to the signals remembers after the step: per
\* path the last signal.
RecordSignals ==
  /\ last_sig' = [p \in PCMPaths |->
                   IF SignalOn(call', p) # "none"
                   THEN SignalOn(call', p) ELSE last_sig[p]]
  /\ UNCHANGED <<config, seen, iter, thr>>

\* The daemon with a peer that listens to PCMAdded and PCMRemoved.
NextSignals ==
  \/ \E a \in AdapterIds : ba_adapter_new(a) /\ RecordSignals
  \/ \E a \in AdapterIds, d \in Addrs : ba_device_new(a, d) /\ RecordSignals
  \/ \E s \in Sessions :
       ba_transport_new(s[1], s[2], s[3]) /\ RecordSignals
  \/ \E t \in TIds : ba_transport_remove(t) /\ RecordSignals
  \/ \E t \in TIds, ok \in BOOLEAN :
       bluealsa_dbus_register_transport(t, ok) /\ RecordSignals
  \/ \E t \in TIds :
       bluealsa_dbus_unregister_transport(t) /\ RecordSignals

SpecSignals == Init /\ [][NextSignals]_vars

\* The daemon with a peer that reads properties of the PCM objects.
NextProperties ==
  \/ \E a \in AdapterIds : ba_adapter_new(a) /\ AtomicStep
  \/ \E a \in AdapterIds, d \in Addrs : ba_device_new(a, d) /\ AtomicStep
  \/ \E s \in Sessions :
       ba_transport_new(s[1], s[2], s[3]) /\ AtomicStep
  \/ \E t \in TIds : ba_transport_remove(t) /\ AtomicStep
  \/ \E property \in PropertyNames :
       bluealsa_transport_get_property(property) /\ AtomicStep
  \/ \E t \in TIds, ok \in BOOLEAN :
       bluealsa_dbus_register_transport(t, ok) /\ AtomicStep
  \/ \E t \in TIds :
       bluealsa_dbus_unregister_transport(t) /\ AtomicStep

SpecProperties == Init /\ [][NextProperties]_vars

\* ------------------------------------ the functions, step by step
\* bluealsa_manager_method_call on the dispatch thread, one statement at a
\* time, while other threads change the tree.  The function takes no lock
\* and holds no reference to what the iterators hand out.

\* The method call arrives: i = 0, the builder is empty.
method_call_enter ==
  /\ iter.pc = "idle"
  /\ \E o \in objects : /\ o.path = BLUEALSA_MANAGER_PATH
                         /\ o.iface = BLUEALSA_IFACE_MANAGER
  /\ iter' = [IterIdle EXCEPT !.pc = "adapter"]
  /\ call' = NoCall
  /\ UNCHANGED <<adapters, devices, transports, objects, next_id,
                 added, removed, binds>>

\* for (i = 0; i < HCI_MAX_DEV; i++) with ba_adapter_lookup(i), and the
\* return of the reply after the loop.
method_call_adapter ==
  /\ iter.pc = "adapter"
  /\ IF iter.i >= HCI_MAX_DEV
     THEN /\ iter' = IterIdle
          /\ call' = [NoCall EXCEPT !.name = "bluealsa_manager_method_call",
                                    !.reply = iter.reply]
     ELSE /\ iter' = IF ba_adapter_lookup(iter.i)
                     THEN [iter EXCEPT !.pc = "next", !.visited = {}]
                     ELSE [iter EXCEPT !.i = @ + 1]
          /\ call' = NoCall
  /\ UNCHANGED <<adapters, devices, transports, objects, next_id,
                 added, removed, binds>>

\* g_hash_table_iter_next on a->devices and d->transports of adapter i: a
\* transport that is in the tables now and was not handed out yet, or the
\* end of the tables.
method_call_next ==
  /\ iter.pc = "next"
  /\ LET pending == {t \in DOMAIN transports :
                       /\ InRegistry(t)
                       /\ transports[t].a = iter.i
                       /\ t \notin iter.visited}
     IN IF pending = {}
        THEN iter' = [iter EXCEPT !.pc = "adapter", !.i = @ + 1]
        ELSE \E t \in pending :
               iter' = [iter EXCEPT !.pc = "read", !.cur = t,
                                    !.visited = @ \cup {t}]
  /\ call' = NoCall
  /\ UNCHANGED <<adapters, devices, transports, objects, next_id,
                 added, removed, binds>>

\* What the reads of t->type.profile and t->ba_dbus_path add to the
\* builder.  A transport removed since it was handed out may be freed
\* (nobody holds a reference for the dispatch thread): the reads then give
\* the old contents, a profile with the RFCOMM bit, or another path.
ReadOutcomes(t) ==
  IF InRegistry(t)
  THEN {TransportLoop(<<t>>)}
  ELSE { <<>>,
         << <<transports[t].ba_dbus_path, <<>> >> >>,
         << << <<"freed">>, <<>> >> >> }

\* The body of the inner loop for the transport handed out.
method_call_read ==
  /\ iter.pc = "read"
  /\ \E entry \in ReadOutcomes(iter.cur) :
       iter' = [iter EXCEPT !.pc = "next", !.reply = @ \o entry]
  /\ call' = NoCall
  /\ UNCHANGED <<adapters, devices, transports, objects, next_id,
                 added, removed, binds>>

\* The dispatch thread in the manager method, other threads at the tree.
NextDispatch ==
  \/ \E a \in AdapterIds : ba_adapter_new(a) /\ AtomicStep
  \/ \E a \in AdapterIds, d \in Addrs : ba_device_new(a, d) /\ AtomicStep
  \/ \E s \in Sessions :
       ba_transport_new(s[1], s[2], s[3]) /\ AtomicStep
  \/ \E t \in TIds : ba_transport_remove(t) /\ AtomicStep
  \/ \E a \in AdapterIds, d \in Addrs : ba_device_free(a, d) /\ AtomicStep
  \/ \E a \in AdapterIds : ba_adapter_free(a) /\ AtomicStep
  \/ method_call_enter /\ UNCHANGED <<config, seen, last_sig, thr>>
  \/ method_call_adapter /\ UNCHANGED <<config, seen, last_sig, thr>>
  \/ method_call_next /\ UNCHANGED <<config, seen, last_sig, thr>>
  \/ method_call_read /\ UNCHANGED <<config, seen, last_sig, thr>>

SpecDispatch == Init /\ [][NextDispatch]_vars

\* bluealsa_dbus_unregister_transport on thread th, one statement at a
\* time.  The test of line 202: with a zero ba_dbus_id the call returns.
unregister_transport_test(th, t) ==
  /\ thr[th].pc = "idle"
  /\ t \in DOMAIN transports
  /\ thr' = IF transports[t].ba_dbus_id # 0
            THEN [thr EXCEPT ![th] = [pc |-> "unregister", t |-> t,
                                      id |-> transports[t].ba_dbus_id]]
            ELSE thr
  /\ call' = [NoCall EXCEPT !.name = "bluealsa_dbus_unregister_transport",
                            !.t = t]
  /\ UNCHANGED <<adapters, devices, transports, objects, next_id,
                 added, removed, binds>>

\* Line 203: g_dbus_connection_unregister_object with ba_dbus_id, the
\* value of the test or the one read again.
unregister_transport_object(th) ==
  /\ thr[th].pc = "unregister"
  /\ \E id \in {thr[th].id, transports[thr[th].t].ba_dbus_id} :
       /\ objects' = ObjectsAfterUnregister(id)
       /\ thr' = [thr EXCEPT ![th].pc = "signal", ![th].id = id]
       /\ call' = [NoCall EXCEPT
            !.name = "bluealsa_dbus_unregister_transport",
            !.t = thr[th].t,
            !.events = << [ev |-> "unregister_object", id |-> id,
                           done |-> g_dbus_connection_unregister_object(id)] >>]
  /\ UNCHANGED <<adapters, devices, transports, next_id,
                 added, removed, binds>>

\* Lines 204-206: PCMRemoved is emitted and the call returns.
unregister_transport_signal(th) ==
  /\ thr[th].pc = "signal"
  /\ removed < MaxSignals
  /\ removed' = removed + 1
  /\ thr' = [thr EXCEPT ![th] = [pc |-> "idle", t |-> 0, id |-> 0]]
  /\ call' = [NoCall EXCEPT
       !.name = "bluealsa_dbus_unregister_transport",
       !.t = thr[th].t,
       !.events = << [ev |-> "emit_signal", signal |-> "PCMRemoved",
                      path |-> transports[thr[th].t].ba_dbus_path] >>]
  /\ UNCHANGED <<adapters, devices, transports, objects, next_id,
                 added, binds>>

\* Two threads in bluealsa_dbus_unregister_transport, registrations and a
\* growing tree around them.
NextRetract ==
  \/ \E a \in AdapterIds : ba_adapter_new(a) /\ AtomicStep
  \/ \E a \in AdapterIds, d \in Addrs : ba_device_new(a, d) /\ AtomicStep
  \/ \E s \in Sessions :
       ba_transport_new(s[1], s[2], s[3]) /\ AtomicStep
  \/ \E t \in TIds, ok \in BOOLEAN :
       bluealsa_dbus_register_transport(t, ok) /\ AtomicStep
  \/ \E th \in Threads, t \in TIds :
       unregister_transport_test(th, t)
         /\ UNCHANGED <<config, seen, last_sig, iter>>
  \/ \E th \in Threads :
       unregister_transport_object(th)
         /\ UNCHANGED <<config, seen, last_sig, iter>>
  \/ \E th \in Threads :
       unregister_transport_signal(th)
         /\ UNCHANGED <<config, seen, last_sig, iter>>

SpecRetract == Init /\ [][NextRetract]_vars

TypeOK ==
  /\ adapters \subseteq AdapterIds
  /\ devices \subseteq AdapterIds \X Addrs
  /\ DOMAIN transports \subseteq TIds
  /\ next_id \in 2..(MaxSignals + 2)
  /\ added \in 0..MaxSignals
  /\ removed \in 0..MaxSignals
  /\ binds \in 0..MaxSignals
  /\ binds = next_id - 2

\* ------------------------------------------------- reading a state
IsExpose == call.name = "bluealsa_dbus_register_transport"
IsRetract == call.name = "bluealsa_dbus_unregister_transport"
IsEnumerate == call.name = "bluealsa_manager_method_call"

\* The call c emitted the signal sig.
Emitted(c, sig) ==
  \E i \in DOMAIN c.events :
    c.events[i].ev = "emit_signal" /\ c.events[i].signal = sig

\* The call c asked the object table for a registration and was refused.
BindRejected(c) ==
  \E i \in DOMAIN c.events :
    c.events[i].ev = "register_object" /\ c.events[i].id = 0

\* A PCM object is exported at path.
PathBound(path) ==
  \E o \in objects : o.path = path /\ o.iface = BLUEALSA_IFACE_PCM

\* The handle of transport t names a live registration.
Exposed(t) ==
  \E o \in objects : o.id = transports[t].ba_dbus_id

\* The profile of t has the RFCOMM bit (bit 6) set.
ControlOnly(t) ==
  (transports[t].profile \div BA_TRANSPORT_PROFILE_RFCOMM) % 2 = 1

\* ------------------------------------------------------------ claims

\* C1: when the object table rejects the registration in
\* bluealsa_dbus_register_transport, the transport's handle is zero, no
\* PCMAdded signal is emitted and the caller gets the zero handle.
C1_RejectedBindIsSilent ==
  (IsExpose /\ BindRejected(call)) =>
    /\ transports[call.t].ba_dbus_id = 0
    /\ call.ret = 0
    /\ ~Emitted(call, "PCMAdded")

\* C2: PCMAdded is emitted only by a call whose registration succeeded, and
\* the number of PCMAdded signals equals the number of successful
\* registrations.
C2_AddedOncePerBind ==
  /\ added = binds
  /\ (IsExpose /\ Emitted(call, "PCMAdded")) => ~BindRejected(call)

\* C3: bluealsa_dbus_unregister_transport on a transport with a zero handle
\* changes nothing and emits nothing, and two calls in a row on the same
\* transport emit at most one PCMRemoved.
C3_RetractIdempotent ==
  [][\A t \in DOMAIN transports :
       (call'.name = "bluealsa_dbus_unregister_transport" /\ call'.t = t) =>
         /\ transports[t].ba_dbus_id = 0 =>
              /\ call'.events = <<>>
              /\ UNCHANGED <<adapters, devices, transports, objects, next_id,
                             added, removed, binds>>
         /\ (IsRetract /\ call.t = t) =>
              ~(Emitted(call, "PCMRemoved") /\ Emitted(call', "PCMRemoved"))
    ]_vars

\* C4: the handle of a transport is non-zero right after a successful
\* register call and zero right after an unregister call, and it goes from
\* zero to non-zero only in a successful register call on that transport.
C4_HandleFollowsCalls ==
  /\ [](IsExpose /\ call.ret # 0 => transports[call.t].ba_dbus_id # 0)
  /\ [](IsRetract => transports[call.t].ba_dbus_id = 0)
  /\ [][\A t \in DOMAIN transports :
          (transports[t].ba_dbus_id = 0 /\ transports'[t].ba_dbus_id # 0) =>
            /\ call'.name = "bluealsa_dbus_register_transport"
            /\ call'.t = t
            /\ call'.ret # 0
       ]_vars

\* C5: between calls, the handle of every transport is non-zero exactly
\* when a PCM object is exported at the transport's path.
C5_HandleIffBound ==
  \A t \in DOMAIN transports :
    transports[t].ba_dbus_id # 0 <=> PathBound(transports[t].ba_dbus_path)

\* C6: bluealsa_dbus_unregister_transport on a transport with a non-zero
\* handle unregisters the object, then emits one PCMRemoved with the
\* transport's path, then clears the handle; the path is not exported when
\* the signal goes out.
C6_RetractOrder ==
  [][\A t \in DOMAIN transports :
       ( /\ call'.name = "bluealsa_dbus_unregister_transport"
         /\ call'.t = t
         /\ transports[t].ba_dbus_id # 0 ) =>
         /\ Len(call'.events) = 2
         /\ call'.events[1].ev = "unregister_object"
         /\ call'.events[1].id = transports[t].ba_dbus_id
         /\ call'.events[2] = [ev |-> "emit_signal", signal |-> "PCMRemoved",
                               path |-> transports[t].ba_dbus_path]
         /\ removed' = removed + 1
         /\ ~PathBound(transports[t].ba_dbus_path)'
         /\ transports'[t].ba_dbus_id = 0
    ]_vars

\* The paths of the reply of the manager method.
ReplyPaths == {call.reply[i][1] : i \in DOMAIN call.reply}

\* How many entries of the reply carry path.
ReplyCount(path) ==
  Cardinality({i \in DOMAIN call.reply : call.reply[i][1] = path})

\* C7: the reply of the manager method never carries the path of a
\* transport whose profile has the RFCOMM bit.
C7_NoControlOnlyInReply ==
  IsEnumerate =>
    \A t \in DOMAIN transports :
      ControlOnly(t) => transports[t].ba_dbus_path \notin ReplyPaths

C7_Witness ==
  /\ IsEnumerate
  /\ call.reply # <<>>
  /\ \E t \in DOMAIN transports : InRegistry(t) /\ ControlOnly(t)

\* C8: the reply of the manager method has exactly one entry, the path with
\* an empty property map, for every transport of the tree whose profile has
\* no RFCOMM bit, and no other entry, whatever is registered on the bus.
C8_ReplyIsRegistry ==
  IsEnumerate =>
    LET want == {t \in DOMAIN transports : InRegistry(t) /\ ~ControlOnly(t)}
    IN /\ Len(call.reply) = Cardinality(want)
       /\ \A t \in want :
            Cardinality({i \in DOMAIN call.reply :
              call.reply[i] = <<transports[t].ba_dbus_path, <<>> >>}) = 1
       /\ \A i \in DOMAIN call.reply :
            \E t \in want : call.reply[i][1] = transports[t].ba_dbus_path

\* One sink and one registered RFCOMM transport under one device: the
\* reply is the sink's path.
C8_Witness ==
  /\ IsEnumerate
  /\ Len(call.reply) = 1
  /\ \E t, u \in DOMAIN transports :
       /\ InRegistry(t) /\ ~ControlOnly(t)
       /\ InRegistry(u) /\ ControlOnly(u) /\ Exposed(u)
       /\ transports[t].a = transports[u].a
       /\ transports[t].d = transports[u].d
       /\ call.reply[1][1] = transports[t].ba_dbus_path

\* C9 as stated: the reply of the manager method has an entry for every
\* transport that is registered on the bus and has no RFCOMM bit, and none
\* for a transport that is not registered on the bus.
C9_ReplyIsExposed ==
  IsEnumerate =>
    \A t \in DOMAIN transports :
      /\ (Exposed(t) /\ ~ControlOnly(t)) =>
           transports[t].ba_dbus_path \in ReplyPaths
      /\ ~Exposed(t) => transports[t].ba_dbus_path \notin ReplyPaths

\* C9 amended: the reply of the manager method has one entry per transport
\* of the tree without RFCOMM bit, registered on the bus or not: the path
\* of a transport occurs in the reply as often as the tree holds a
\* transport with that path, which is once for a transport of the tree.
C9_ReplyIgnoresExposure ==
  IsEnumerate =>
    \A t \in DOMAIN transports :
      ~ControlOnly(t) =>
        /\ ReplyCount(transports[t].ba_dbus_path) =
             Cardinality({u \in DOMAIN transports :
               /\ InRegistry(u)
               /\ transports[u].ba_dbus_path = transports[t].ba_dbus_path})
        /\ InRegistry(t) => ReplyCount(transports[t].ba_dbus_path) = 1

\* A transport of the tree that is not registered on the bus is in the
\* reply.
C9_Witness ==
  /\ IsEnumerate
  /\ \E t \in DOMAIN transports :
       /\ InRegistry(t)
       /\ ~Exposed(t)
       /\ transports[t].ba_dbus_path \in ReplyPaths

\* C10: while transport u is registered at a path, a register call on
\* another transport t with the same path returns 0, leaves the handle of
\* t zero and leaves u and the object table as they are, and an unregister
\* call on t leaves u registered.
C10_DuplicatePathRejected ==
  [][\A t, u \in DOMAIN transports :
       ( /\ t # u
         /\ transports[t].ba_dbus_path = transports[u].ba_dbus_path
         /\ Exposed(u)
         /\ call'.t = t ) =>
         /\ call'.name = "bluealsa_dbus_register_transport" =>
              /\ call'.ret = 0
              /\ transports'[t].ba_dbus_id = 0
              /\ transports'[u].ba_dbus_id = transports[u].ba_dbus_id
              /\ objects' = objects
         /\ call'.name = "bluealsa_dbus_unregister_transport" =>
              /\ transports'[u].ba_dbus_id = transports[u].ba_dbus_id
              /\ \E o \in objects' : o.id = transports'[u].ba_dbus_id
    ]_vars

\* The register call on the second transport of a path was refused and the
\* first is still registered.
C10_Witness ==
  /\ IsExpose
  /\ call.ret = 0
  /\ \E u \in DOMAIN transports :
       /\ u # call.t
       /\ transports[u].ba_dbus_path = transports[call.t].ba_dbus_path
       /\ Exposed(u)

\* C19: g_dbus_connection_unregister_object is only ever called with the id
\* of a registration that is in the object table at that moment: never
\* with 0 and never with an id that was unregistered before.
C19_UnbindOnlyBound ==
  IsRetract =>
    \A i \in DOMAIN call.events :
      call.events[i].ev = "unregister_object" =>
        /\ call.events[i].id # 0
        /\ call.events[i].done

\* C20: every PCM object of the object table is named by the handle of some
\* transport, so that unregistering every transport once empties the table
\* of PCM objects.
C20_NoOrphanRegistration ==
  \A o \in objects :
    o.iface = BLUEALSA_IFACE_PCM =>
      \E t \in DOMAIN transports : transports[t].ba_dbus_id = o.id

\* C11: when bluealsa_config_init cannot open the null device, it returns a
\* non-zero status.
C11_InitFailureReported ==
  (call.name = "bluealsa_config_init" /\ config.null_fd = -1) =>
    call.ret # 0

\* C16: bluealsa_config_init on a host without the audio group succeeds and
\* leaves gid_audio at -1; on a host with the group gid_audio is the
\* group's id.
C16_GroupFallback ==
  call.name = "bluealsa_config_init" =>
    LET fd == call.events[1].fd
        grp == call.events[2].grp
    IN /\ (grp = <<>> /\ fd # -1) => call.ret = 0
       /\ grp = <<>> => config.gid_audio = -1
       /\ grp # <<>> => config.gid_audio = grp[1]

C16_Witness ==
  /\ call.name = "bluealsa_config_init"
  /\ call.events[2].grp = <<>>
  /\ call.ret = 0
  /\ config.gid_audio = -1
  /\ config.null_fd # -1

\* C14: no two transports of the tree have the same path, transports of
\* the tree that differ in adapter index, device address or profile differ
\* in their path, and the reply of the manager method carries no path
\* twice.
C14_PathsUnique ==
  /\ \A t, u \in DOMAIN transports :
       (t # u /\ InRegistry(t) /\ InRegistry(u)) =>
         /\ << transports[t].a, transports[t].d, transports[t].profile >> #
            << transports[u].a, transports[u].d, transports[u].profile >>
         /\ transports[t].ba_dbus_path # transports[u].ba_dbus_path
  /\ IsEnumerate =>
       \A i, j \in DOMAIN call.reply :
         i # j => call.reply[i][1] # call.reply[j][1]

\* The reply carries the paths of two transports of the tree.
C14_Witness ==
  /\ IsEnumerate
  /\ Len(call.reply) = 2
  /\ \E t, u \in DOMAIN transports :
       /\ t # u /\ InRegistry(t) /\ InRegistry(u)
       /\ call.reply[1][1] = transports[t].ba_dbus_path
       /\ call.reply[2][1] = transports[u].ba_dbus_path

\* C15: a property read on a PCM object returns no value and the error
\* "No such property" naming the property asked for, whatever the name,
\* and leaves the tree, the object table and every handle as they were.
C15_NoSuchProperty ==
  [][ call'.name = "bluealsa_transport_get_property" =>
        /\ call'.ret = 0
        /\ \E property \in PropertyNames :
             call'.events =
               << [ev |-> "g_error_new",
                   domain |-> "G_DBUS_ERROR",
                   code |-> "G_DBUS_ERROR_INVALID_ARGS",
                   message |-> << "No such property '", property, "'" >>] >>
        /\ UNCHANGED <<adapters, devices, transports, objects>>
    ]_vars

\* A property of a member name of the manager interface was read on an
\* exported transport and refused.
C15_Witness ==
  /\ call.name = "bluealsa_transport_get_property"
  /\ call.events[1].message[2] \in {"", "GetPCMs"}
  /\ call.ret = 0
  /\ \E t \in DOMAIN transports : Exposed(t)

\* C13: a reply of the manager method taken while the tree is as it was
\* at the reply before has the same paths, and the manager method writes
\* neither the tree nor the object table nor a handle.
C13_EnumerateRepeatable ==
  [][ call'.name = "bluealsa_manager_method_call" =>
        /\ seen # <<>> => ReplyPathsOf(call') = seen[1]
        /\ UNCHANGED <<adapters, devices, transports, objects>>
    ]_vars

\* A second reply on the same tree, a registration in between, and not
\* empty.
C13_Witness ==
  /\ IsEnumerate
  /\ seen # <<>>
  /\ seen[2]
  /\ call.reply # <<>>
  /\ \E t \in DOMAIN transports : Exposed(t)

\* C17: for every path, PCMAdded and PCMRemoved alternate, PCMAdded first
\* (so that PCMRemoved is never emitted more often than PCMAdded).
C17_SignalsAlternate ==
  [][ \A p \in PCMPaths :
        /\ SignalOn(call', p) = "PCMAdded" => last_sig[p] # "PCMAdded"
        /\ SignalOn(call', p) = "PCMRemoved" => last_sig[p] = "PCMAdded"
    ]_vars

\* C12: while other threads change the tree, the adapter whose tables the
\* manager method walks and the transport it is reading are in the tree,
\* and every path of its reply is the path of a transport.
C12_IterationSafe ==
  /\ iter.pc \in {"next", "read"} => ba_adapter_lookup(iter.i)
  /\ iter.pc = "read" => InRegistry(iter.cur)
  /\ \A i \in DOMAIN iter.reply : iter.reply[i][1] \in PCMPaths
  /\ ReplyPaths \subseteq PCMPaths

\* C18: two threads that unregister the same transport at the same time
\* never both ask GDBus to drop its registration and never both emit
\* PCMRemoved for it.
C18_ConcurrentRetractOnce ==
  \A th, other \in Threads :
    ( /\ th # other
      /\ thr[th].pc = "signal"
      /\ thr[other].pc = "signal" ) => thr[th].id # thr[other].id

====
